---- MODULE Spec2Model ----
(***************************************************************************)
(* The release-upgrade driver of the pop-upgrade command line client       *)
(* (src/src/cli/mod.rs): Client::release ("upgrade"), the dispatch session *)
(* Client::event_listen_release_upgrade with its event handler, the        *)
(* result reporter log_result and the yes/no prompt prompt_message; with   *)
(* them the sessions of "update" (event_listen_fetch_updates) and of the   *)
(* recovery upgrade that precedes a recovery-based release upgrade.        *)
(*                                                                         *)
(* client::Client::event_listen, the status reconciler and event           *)
(* dispatcher the sessions run in, lives in the library crate, outside     *)
(* src/; it is modelled from spec.md sections 4.1 and 4.2.                 *)
(***************************************************************************)
EXTENDS Integers, Sequences, FiniteSets, Bags, TLC

\* ------------------------------------------------------------------ bounds

\* Most release-upgrade requests one flow may issue (first request + retries).
MaxRequests == 3

\* Most stream events one dispatch session handles.
MaxEvents == 3

\* Most rounds of input the terminal holds for one call of prompt_message.
MaxRounds == 2

\* The largest status code: log_result takes `status: u8`.
MaxStatus == 255

\* --------------------------------------------------------------- constants

FETCH_RESULT_STR == "Package fetch status"
FETCH_RESULT_SUCCESS == "cargo has been loaded successfully"
FETCH_RESULT_ERROR == "package-fetching aborted"

RECOVERY_RESULT_STR == "Recovery upgrade status"
RECOVERY_RESULT_SUCCESS == "recovery partition refueled and ready to go"
RECOVERY_RESULT_ERROR == "recovery upgrade aborted"

UPGRADE_RESULT_STR == "Release upgrade status"
UPGRADE_RESULT_SUCCESS == "systems are go for launch: reboot now"
UPGRADE_RESULT_ERROR == "release upgrade aborted"

\* ------------------------------------------------------------------ inputs

\* Status codes of a result event or of a queried status: zero and nonzero.
\* (On a PackageUpgrade signal the field says whether its map unpacks: 0 = yes.)
StatusCodes == {0, 1}

\* The free-text reason (`why`) that comes with a status code.
Reasons == {"reason"}

\* Repository URLs a RepoCompatError may name.
Urls == {"repo-a", "repo-b"}

\* The daemon's coarse status.
DaemonStatus == {"Inactive", "FetchingPackages", "RecoveryUpgrade", "ReleaseUpgrade"}

\* One round of the prompt: whether writing the prompt succeeds, whether
\* reading the answer succeeds, the line read (characters, with the newline
\* read_line keeps) and whether writing the usage message succeeds.
Round(out, in, line, usage) == [out |-> out, in |-> in, line |-> line, usage |-> usage]

Typed(line) == Round(TRUE, TRUE, line, TRUE)

\* What the operator's terminal may feed one prompt: the rounds in order; when
\* they are used up the input is at its end (read_line reads nothing).
OperatorInputs ==
    { <<>>,
      << Typed(<<"y", "\n">>) >>,
      << Typed(<<"n", "\n">>) >>,
      << Typed(<<"\n">>), Typed(<<"Y", "e", "s", "\n">>) >> }

\* A signal of the daemon's event stream (client::Signal), as far as the
\* handlers read it.
Sig(tag, status, success, failure) ==
    [tag |-> tag, status |-> status, success |-> success, failure |-> failure]

Plain(tag) == Sig(tag, 0, {}, {})

\* RepoCompatError { success, failure }: the URLs that passed and those that
\* failed (disjoint; the reason of a failure is only printed).
RepoCompatErrors ==
    UNION { { Sig("RepoCompatError", 0, s, f) : s \in SUBSET (Urls \ f) } :
            f \in SUBSET Urls }

Signals ==
    { Plain(t) : t \in { "PackageFetched", "PackageFetching", "ReleaseEvent",
                         "NoConnection", "RecoveryDownloadProgress",
                         "RecoveryEvent" } }
    \cup { Sig(t, c, {}, {}) : t \in { "PackageFetchResult", "ReleaseResult",
                                       "RecoveryResult", "PackageUpgrade" },
                               c \in StatusCodes }
    \cup RepoCompatErrors

NoSignal == Plain("None")

\* --------------------------------------------------------- pure functions

\* Mutant: the reason is printed whatever the status code.
log_result_WithReason(status, event, success, error, why) ==
    IF status = 0 THEN << event, success, why >> ELSE << event, error, why >>

\* log_result: the one line it prints, as its fields.
log_result(status, event, success, error, why) ==
    IF status = 0 THEN << event, success >> ELSE << event, error, why >>

\* Mutant: an I/O error answers no instead of the default.
RECURSIVE prompt_message_FailNo(_, _)
prompt_message_FailNo(stdin, default) ==
    IF stdin = <<>>
    THEN default
    ELSE LET r == Head(stdin) IN
         IF ~r.out \/ ~r.in THEN FALSE
         ELSE IF r.line = <<>> THEN default
         ELSE IF r.line[1] \in {"y", "Y"} \/ r.line = <<"t", "r", "u", "e">> THEN TRUE
         ELSE IF r.line[1] \in {"n", "N"} \/ r.line = <<"f", "a", "l", "s", "e">> THEN FALSE
         ELSE IF ~r.usage THEN FALSE
         ELSE prompt_message_FailNo(Tail(stdin), default)

\* prompt_message: the answer for the rounds the terminal feeds it.
RECURSIVE prompt_message(_, _)
prompt_message(stdin, default) ==
    IF stdin = <<>>
    THEN default
    ELSE LET r == Head(stdin) IN
         IF ~r.out \/ ~r.in THEN default
         ELSE IF r.line = <<>> THEN default
         ELSE IF r.line[1] \in {"y", "Y"} \/ r.line = <<"t", "r", "u", "e">> THEN TRUE
         ELSE IF r.line[1] \in {"n", "N"} \/ r.line = <<"f", "a", "l", "s", "e">> THEN FALSE
         ELSE IF ~r.usage THEN default
         ELSE prompt_message(Tail(stdin), default)

\* The loop of prompt_message (lines 678-684) with what it leaves on the
\* terminal: the answer, the usage messages written and the rounds begun.
RECURSIVE prompt_loop(_, _, _)
prompt_loop(stdin, default, usages) ==
    LET break(answer) == [answer |-> answer, usages |-> usages, rounds |-> usages + 1]
    IN  IF stdin = <<>>
        THEN break(default)
        ELSE LET r == Head(stdin) IN
             IF ~r.out \/ ~r.in THEN break(default)
             ELSE IF r.line = <<>> THEN break(default)
             ELSE IF r.line[1] \in {"y", "Y"} \/ r.line = <<"t", "r", "u", "e">>
                  THEN break(TRUE)
             ELSE IF r.line[1] \in {"n", "N"} \/ r.line = <<"f", "a", "l", "s", "e">>
                  THEN break(FALSE)
             ELSE IF ~r.usage THEN break(default)
             ELSE prompt_loop(Tail(stdin), default, usages + 1)

\* ------------------------------------------------ the release-upgrade handler

\* The key of the "Try again?" prompt (the "Keep repository" prompts are keyed
\* by their URL).
TryAgain == "Try again?"

\* What one call of the handler closure does: the retry flag after it, what it
\* returns ("continue" = Ok(Continue(true)), "stop" = Ok(Continue(false)),
\* "error" = Err), the log_result lines it prints, the (prompt, answer) pairs
\* it asked the operator and the decision sets it passed to repo_modify.
Step(recall, ret, lines, asked, modify) ==
    [recall |-> recall, ret |-> ret, lines |-> lines, asked |-> asked, modify |-> modify]

\* Mutant: an arm that echoes progress returns Ok(Continue(false)).
InformationalArm_Stop(recall) == Step(recall, "stop", <<>>, {}, <<>>)

\* Arms that only echo progress and fall through to Ok(Continue(true)).
InformationalArm(recall) == Step(recall, "continue", <<>>, {}, <<>>)

PackageFetchResultArm(recall, status, why) ==
    Step(recall, "continue",
         << log_result(status, FETCH_RESULT_STR, FETCH_RESULT_SUCCESS,
                       FETCH_RESULT_ERROR, why) >>,
         {}, <<>>)

\* Mutant: the result line is never printed.
ReleaseResultArm_Silent(recall, status, why) == Step(recall, "stop", <<>>, {}, <<>>)

\* Mutant: the result line is printed whether or not a retry is pending.
ReleaseResultArm_Always(recall, status, why) ==
    Step(recall, "stop",
         << log_result(status, UPGRADE_RESULT_STR, UPGRADE_RESULT_SUCCESS,
                       UPGRADE_RESULT_ERROR, why) >>,
         {}, <<>>)

ReleaseResultArm(recall, status, why) ==
    Step(recall, "stop",
         IF ~recall
         THEN << log_result(status, UPGRADE_RESULT_STR, UPGRADE_RESULT_SUCCESS,
                            UPGRADE_RESULT_ERROR, why) >>
         ELSE <<>>,
         {}, <<>>)

\* Mutant: a no answer takes back a retry requested earlier in the session.
NoConnectionArm_ClearOnNo(recall, stdin) ==
    LET answer == prompt_message(stdin, FALSE) IN
    IF answer
    THEN Step(TRUE, "continue", <<>>, { <<TryAgain, answer>> }, <<>>)
    ELSE Step(FALSE, "stop", <<>>, { <<TryAgain, answer>> }, <<>>)

\* Mutant: a yes answer returns Ok(Continue(false)) at once.
NoConnectionArm_Stop(recall, stdin) ==
    LET answer == prompt_message(stdin, FALSE) IN
    Step(recall \/ answer, "stop", <<>>, { <<TryAgain, answer>> }, <<>>)

NoConnectionArm(recall, stdin) ==
    LET answer == prompt_message(stdin, FALSE) IN
    IF answer
    THEN Step(TRUE, "continue", <<>>, { <<TryAgain, answer>> }, <<>>)
    ELSE Step(recall, "stop", <<>>, { <<TryAgain, answer>> }, <<>>)

\* Mutant: the succeeded URLs are sent along, marked for removal.
RepoDecisions_All(success, failure, stdin) ==
    { << url, IF url \in failure THEN prompt_message(stdin[url], FALSE) ELSE FALSE >> :
      url \in failure \cup success }

\* The iterator handed to repo_modify: one (url, answer) per failed URL.
RepoDecisions(success, failure, stdin) ==
    { << url, prompt_message(stdin[url], FALSE) >> : url \in failure }

\* Mutant: the retry flag is set before repo_modify is called.
RepoCompatErrorArm_Unconditional(recall, success, failure, stdin, modify_ok) ==
    LET repos == RepoDecisions(success, failure, stdin) IN
    IF modify_ok
    THEN Step(TRUE, "continue", <<>>, repos, << repos >>)
    ELSE Step(TRUE, "error", <<>>, repos, << repos >>)

RepoCompatErrorArm(recall, success, failure, stdin, modify_ok) ==
    LET repos == RepoDecisions(success, failure, stdin) IN
    IF modify_ok
    THEN Step(TRUE, "continue", <<>>, repos, << repos >>)
    ELSE Step(recall, "error", <<>>, repos, << repos >>)

\* The handler closure of event_listen_release_upgrade. stdin gives the
\* terminal input of each prompt, modify_ok whether repo_modify succeeds.
release_upgrade_handler(recall, signal, why, stdin, modify_ok) ==
    CASE signal.tag = "PackageFetchResult" ->
             PackageFetchResultArm(recall, signal.status, why)
      [] signal.tag \in {"PackageFetched", "PackageFetching", "PackageUpgrade",
                         "ReleaseEvent"} ->
             InformationalArm(recall)
      [] signal.tag = "ReleaseResult" ->
             ReleaseResultArm(recall, signal.status, why)
      [] signal.tag = "NoConnection" ->
             NoConnectionArm(recall, stdin[TryAgain])
      [] signal.tag = "RepoCompatError" ->
             RepoCompatErrorArm(recall, signal.success, signal.failure, stdin, modify_ok)
      [] OTHER ->
             Step(recall, "continue", <<>>, {}, <<>>)

\* Mutant: the callback reports with the package-fetch constants.
release_upgrade_log_cb_Fetch(status, why) ==
    log_result(status, FETCH_RESULT_STR, FETCH_RESULT_SUCCESS,
               FETCH_RESULT_ERROR, why)

\* The log callback event_listen_release_upgrade gives event_listen.
release_upgrade_log_cb(status, why) ==
    log_result(status, UPGRADE_RESULT_STR, UPGRADE_RESULT_SUCCESS,
               UPGRADE_RESULT_ERROR, why)

\* Mutant: every session that ends without an error asks for a retry.
SessionReturn_AlwaysRetry(recall, result) ==
    IF ~recall /\ result = "Err" THEN "Err" ELSE "Retry"

\* Mutant: an error of event_listen is always propagated.
SessionReturn_Propagate(recall, result) ==
    IF result = "Err" THEN "Err"
    ELSE IF recall THEN "Retry" ELSE "NoRetry"

\* What event_listen_release_upgrade returns for the flag and for the result
\* of event_listen: "Err", or Ok(true) = "Retry", or Ok(false) = "NoRetry".
SessionReturn(recall, result) ==
    IF ~recall /\ result = "Err" THEN "Err"
    ELSE IF recall THEN "Retry" ELSE "NoRetry"

\* Mutant: an error of the session leaves the loop for the finalize call.
AfterSession_FinalizeOnError(ret) ==
    CASE ret = "Retry" -> "request"
      [] OTHER -> "finalize"

\* Mutant: the loop is left for the finalize call on any Ok.
AfterSession_NoLoop(ret) ==
    CASE ret = "Err" -> "failed"
      [] OTHER -> "finalize"

\* Where Client::release goes on from what the session returned.
AfterSession(ret) ==
    CASE ret = "Err" -> "failed"
      [] ret = "Retry" -> "request"
      [] OTHER -> "finalize"

\* ------------------------------------- the fetch and recovery handlers

\* The DaemonStatus each session gives event_listen as the expected one.
Expected(operation) ==
    CASE operation = "fetch" -> "FetchingPackages"
      [] operation = "recovery" -> "RecoveryUpgrade"
      [] OTHER -> "ReleaseUpgrade"

\* An arm of a handler without a retry flag that prints no result and falls
\* through to Ok(Continue(true)): progress echoes and the `_ => ()` arm.
KeepGoing == Step(FALSE, "continue", <<>>, {}, <<>>)

\* Mutant: the fetch result is reported and the session stays on the stream.
FetchResultArm_Continue(status, why) ==
    Step(FALSE, "continue",
         << log_result(status, "Package fetch status",
                       "cargo has been loaded successfully",
                       "package-fetching aborted", why) >>,
         {}, <<>>)

\* event_listen_fetch_updates, arm PackageFetchResult.
FetchResultArm(status, why) ==
    Step(FALSE, "stop",
         << log_result(status, "Package fetch status",
                       "cargo has been loaded successfully",
                       "package-fetching aborted", why) >>,
         {}, <<>>)

\* event_listen_fetch_updates, arm PackageUpgrade: the event is written, or
\* the failure to unpack it is logged.
FetchUpgradeArm(status) == KeepGoing

\* The handler closure of event_listen_fetch_updates.
fetch_updates_handler(signal, why) ==
    CASE signal.tag = "PackageFetchResult" -> FetchResultArm(signal.status, why)
      [] signal.tag \in {"PackageFetched", "PackageFetching"} -> KeepGoing
      [] signal.tag = "PackageUpgrade" -> FetchUpgradeArm(signal.status)
      [] OTHER -> KeepGoing

\* Mutant: the session stops on the result without reporting it.
RecoveryResultArm_Silent(status, why) == Step(FALSE, "stop", <<>>, {}, <<>>)

\* event_listen_recovery_upgrade, arm RecoveryResult. (`reset` is false when
\* the closure is made and is only ever assigned false, so the blank line
\* of lines 363-366 and 375-378 is never printed.)
RecoveryResultArm(status, why) ==
    Step(FALSE, "stop",
         << log_result(status, RECOVERY_RESULT_STR, RECOVERY_RESULT_SUCCESS,
                       RECOVERY_RESULT_ERROR, why) >>,
         {}, <<>>)

\* Mutant: a ReleaseResult ends the recovery session with a result line.
recovery_upgrade_handler_ReleaseResult(signal, why) ==
    CASE signal.tag \in {"RecoveryDownloadProgress", "RecoveryEvent"} -> KeepGoing
      [] signal.tag \in {"RecoveryResult", "ReleaseResult"} ->
             RecoveryResultArm(signal.status, why)
      [] OTHER -> KeepGoing

\* The handler closure of event_listen_recovery_upgrade.
recovery_upgrade_handler(signal, why) ==
    CASE signal.tag \in {"RecoveryDownloadProgress", "RecoveryEvent"} -> KeepGoing
      [] signal.tag = "RecoveryResult" -> RecoveryResultArm(signal.status, why)
      [] OTHER -> KeepGoing

\* The log callbacks event_listen_fetch_updates and
\* event_listen_recovery_upgrade give event_listen.
fetch_updates_log_cb(status, why) ==
    log_result(status, FETCH_RESULT_STR, FETCH_RESULT_SUCCESS,
               FETCH_RESULT_ERROR, why)

recovery_upgrade_log_cb(status, why) ==
    log_result(status, RECOVERY_RESULT_STR, RECOVERY_RESULT_SUCCESS,
               RECOVERY_RESULT_ERROR, why)

\* ------------------------------------------------------- Client::release

\* The subcommands modelled: "update", and "upgrade" with its two methods.
Commands == {"update", "systemd", "recovery"}

\* Lines 154-158: the UpgradeMethod of the subcommand.
Method(command) == IF command = "recovery" THEN "Recovery" ELSE "Offline"

\* What release_check may report as (current, next).
Releases == { <<"20.04", "22.04">> }

\* `available` as release_check returns it: negative when there is no release.
Builds == {-1, 0}

\* A request sent to the daemon, with the arguments the claims read.
Call(name, method, current, next) ==
    [name |-> name, method |-> method, current |-> current, next |-> next]

\* Mutant: the release upgrade is requested without the recovery upgrade.
AfterCheck_SkipRecovery(method, forcing, available) ==
    IF forcing \/ available >= 0 THEN "request" ELSE "no-release"

\* Lines 165-175: where the "upgrade" arm goes after release_check.
AfterCheck(method, forcing, available) ==
    IF forcing \/ available >= 0
    THEN IF method = "Recovery" THEN "recovery_request" ELSE "request"
    ELSE "no-release"

\* Mutant: a re-issued request falls back to the offline method.
release_upgrade_call_Offline(attempt, method, current, next) ==
    Call("release_upgrade", IF attempt > 1 THEN "Offline" ELSE method, current, next)

\* Lines 174 and 184: the release_upgrade call of the given attempt.
release_upgrade_call(attempt, method, current, next) ==
    Call("release_upgrade", method, current, next)

\* ------------------------------------------------------------------- state

VARIABLES
    cmd,        \* the subcommand Client::release was called with
    info,       \* (current, next) as release_check reported them
    op,         \* the operation of the running (or last) dispatch session
    sent,       \* the requests sent to the daemon, in order
    fn,         \* the last call of a pure function (specification Pure)
    pc,         \* where Client::release is. "upgrade": "check", "request",
                \* "attach", "stream", "finalize", "done" (returned Ok after
                \* the finalize call), "no-release"; "recovery_request",
                \* "listen" and "events" (the fetch or recovery session: its
                \* status query, its stream); "update": "fetch_updates",
                \* "no-updates", "fetched"; "failed" (returned Err)
    recall,     \* the retry flag of the running (or last) session
    requests,   \* release_upgrade calls made
    sessions,   \* event_listen_release_upgrade calls made
    finalizes,  \* release_upgrade_finalize calls made
    handled,    \* stream events the handler was called for in this session
    attached,   \* what the status query of this session found (kept until
                \* the session reads the stream)
    last,       \* the last handler call of this session: signal and Step
    ended,      \* how the last session ended: "none" (no session has ended),
                \* "status" (reconciled), "stop" (handler), "error" (transport)
    returned,   \* what the last call of event_listen_release_upgrade returned
    printed,    \* the log_result lines this session printed, in order
    reported,   \* bag of the "Release upgrade status" lines of the whole flow
    scenario    \* how far the run follows the retry scenario (see Scenario)

vars == << cmd, info, op, sent, fn, pc, recall, requests, sessions, finalizes, handled, attached, last,
           ended, returned, printed, reported, scenario >>

\* No handler call yet in this session.
NoStep ==
    [signal |-> NoSignal, stdin |-> <<>>, modify_ok |-> TRUE, before |-> FALSE,
     step |-> Step(FALSE, "continue", <<>>, {}, <<>>)]

\* No status queried yet.
NotAttached == [ok |-> FALSE, status |-> "Inactive", sub_status |-> FALSE, code |-> 0]

\* event_listen, before it reads the stream (spec.md 4.1): the status query
\* fails ("error"); the daemon is in the expected status with a sub-status, so
\* the log callback reports it and the session is over ("report"); otherwise
\* the session goes on to the stream ("stream").
Reconcile(expected, query_ok, status, sub_status) ==
    IF ~query_ok THEN "error"
    ELSE IF status = expected /\ sub_status THEN "report"
    ELSE "stream"

\* event_listen, on what the handler returned for an event (spec.md 4.2): it
\* keeps reading the stream ("stream"), or returns Ok or Err.
Dispatch(ret) ==
    CASE ret = "continue" -> "stream"
      [] ret = "stop" -> "Ok"
      [] OTHER -> "Err"

\* The bag with the "Release upgrade status" lines among `lines` added.
RECURSIVE Report(_, _)
Report(bag, lines) ==
    IF lines = <<>> THEN bag
    ELSE Report(IF Head(lines)[1] = UPGRADE_RESULT_STR
                THEN bag (+) SetToBag({Head(lines)})
                ELSE bag,
                Tail(lines))

Reported(line) == IF line \in BagToSet(reported) THEN CopiesIn(line, reported) ELSE 0

\* The prompts a signal makes the handler ask.
PromptsOf(signal) ==
    CASE signal.tag = "NoConnection" -> {TryAgain}
      [] signal.tag = "RepoCompatError" -> signal.failure
      [] OTHER -> {}

\* The retry scenario of spec.md section 8, followed by a monitor: the first
\* session streams, handles one NoConnection answered yes and then ends (on the
\* daemon's own ReleaseResult or on the stream failing); the second session
\* streams and handles one ReleaseResult with code 0.
Scenario(now, happens) ==
    CASE now = "start" /\ happens = "stream" -> "first"
      [] now = "first" /\ happens = "yes" -> "first-yes"
      [] now = "first-yes" /\ happens \in {"result0", "result1", "error"} -> "retry"
      [] now = "retry" /\ happens = "stream" -> "second"
      [] now = "second" /\ happens = "result0" -> "match"
      [] now = "match" -> "match"
      [] OTHER -> "off"

Happens(signal, step) ==
    CASE signal.tag = "NoConnection" /\ <<TryAgain, TRUE>> \in step.asked -> "yes"
      [] signal.tag = "ReleaseResult" /\ signal.status = 0 -> "result0"
      [] signal.tag = "ReleaseResult" -> "result1"
      [] OTHER -> "other"

NoInfo == << "", "" >>

NoCall == [name |-> "none"]

Init ==
    /\ cmd \in Commands
    /\ info = NoInfo
    /\ op = "none"
    /\ sent = <<>>
    /\ fn = NoCall
    /\ pc = IF cmd = "update" THEN "fetch_updates" ELSE "check"
    /\ recall = FALSE
    /\ requests = 0
    /\ sessions = 0
    /\ finalizes = 0
    /\ handled = 0
    /\ attached = NotAttached
    /\ last = NoStep
    /\ ended = "none"
    /\ returned = "none"
    /\ printed = <<>>
    /\ reported = EmptyBag
    /\ scenario = "start"

\* ----------------------------------------------------------------- actions

\* Client::release, lines 174 and 179-184: release_upgrade(method, current, next).
IssueRequest ==
    /\ pc = "request"
    /\ requests < MaxRequests
    /\ requests' = requests + 1
    /\ sent' = Append(sent, release_upgrade_call(requests + 1, Method(cmd),
                                                 info[1], info[2]))
    /\ \E ok \in BOOLEAN : pc' = IF ok THEN "attach" ELSE "failed"
    /\ UNCHANGED << recall, sessions, finalizes, handled, attached, last, ended,
                    returned, printed, reported, scenario >>
    /\ UNCHANGED << cmd, info, op, fn >>

\* The session ends with `result` of event_listen: lines 519-523, and the
\* driver's step on the value returned (lines 175-189).
EndSession(flag, result, how) ==
    /\ ended' = how
    /\ returned' = SessionReturn(flag, result)
    /\ pc' = AfterSession(SessionReturn(flag, result))

\* event_listen_release_upgrade is entered (line 399) and event_listen asks the
\* daemon for its status: the query fails, or the status is the expected one
\* with a sub-status (the log callback reports it and the session ends), or
\* the session goes on to the stream.
Attach ==
    /\ pc = "attach"
    /\ sessions' = sessions + 1
    /\ recall' = FALSE
    /\ handled' = 0
    /\ last' = NoStep
    /\ \E query_ok \in BOOLEAN, status \in DaemonStatus, sub_status \in BOOLEAN,
          code \in StatusCodes, why \in Reasons :
          LET line == release_upgrade_log_cb(code, why)
              goes == Reconcile("ReleaseUpgrade", query_ok, status, sub_status)
          IN  CASE goes = "error" ->
                      /\ EndSession(FALSE, "Err", "error")
                      /\ attached' = NotAttached
                      /\ printed' = <<>>
                      /\ reported' = reported
                      /\ scenario' = Scenario(scenario, "error")
                [] goes = "report" ->
                      /\ EndSession(FALSE, "Ok", "status")
                      /\ attached' = [ok |-> TRUE, status |-> status,
                                      sub_status |-> sub_status, code |-> code]
                      /\ printed' = << line >>
                      /\ reported' = Report(reported, << line >>)
                      /\ scenario' = Scenario(scenario, "status")
                [] OTHER ->
                      /\ pc' = "stream"
                      /\ ended' = "none"
                      /\ returned' = "none"
                      /\ attached' = [ok |-> TRUE, status |-> status,
                                      sub_status |-> sub_status, code |-> code]
                      /\ printed' = <<>>
                      /\ reported' = reported
                      /\ scenario' = Scenario(scenario, "stream")
    /\ op' = "release"
    /\ UNCHANGED << requests, finalizes >>
    /\ UNCHANGED << cmd, info, sent, fn >>

\* The stream delivers a signal and the dispatcher calls the handler with it.
HandleEvent ==
    /\ pc = "stream"
    /\ handled < MaxEvents
    /\ \E signal \in Signals, why \in Reasons :
       \E stdin \in [PromptsOf(signal) -> OperatorInputs],
          modify_ok \in IF signal.tag = "RepoCompatError" THEN BOOLEAN ELSE {TRUE} :
          LET step == release_upgrade_handler(recall, signal, why, stdin, modify_ok)
              goes == Dispatch(step.ret)
          IN  /\ recall' = step.recall
              /\ last' = [signal |-> signal, stdin |-> stdin, modify_ok |-> modify_ok,
                          before |-> recall, step |-> step]
              /\ printed' = printed \o step.lines
              /\ reported' = Report(reported, step.lines)
              /\ scenario' = Scenario(scenario, Happens(signal, step))
              /\ IF goes = "stream"
                 THEN /\ pc' = "stream"
                      /\ UNCHANGED << ended, returned >>
                 ELSE EndSession(step.recall, goes, IF goes = "Ok" THEN "stop" ELSE "error")
    /\ handled' = handled + 1
    /\ attached' = NotAttached
    /\ UNCHANGED << requests, sessions, finalizes >>
    /\ UNCHANGED << cmd, info, op, sent, fn >>

\* The stream fails (channel closed, malformed message): event_listen returns Err.
StreamError ==
    /\ pc = "stream"
    /\ EndSession(recall, "Err", "error")
    /\ scenario' = Scenario(scenario, "error")
    /\ attached' = NotAttached
    /\ UNCHANGED << recall, requests, sessions, finalizes, handled, last,
                    printed, reported >>
    /\ UNCHANGED << cmd, info, op, sent, fn >>

\* Client::release, line 189: release_upgrade_finalize().
Finalize ==
    /\ pc = "finalize"
    /\ finalizes' = finalizes + 1
    /\ \E ok \in BOOLEAN : pc' = IF ok THEN "done" ELSE "failed"
    /\ UNCHANGED << recall, requests, sessions, handled, attached, last, ended,
                    returned, printed, reported, scenario >>
    /\ UNCHANGED << cmd, info, op, sent, fn >>

\* The variables of a dispatch session, and the counters of the release flow.
session == << handled, attached, last, ended, returned, printed >>

release == << recall, requests, sessions, finalizes, reported, scenario >>

\* Client::release, lines 160-165 and 190-192: release_check, and whether an
\* upgrade is possible or forced.
ReleaseCheck ==
    /\ pc = "check"
    /\ \E ok \in BOOLEAN, forcing \in BOOLEAN, available \in Builds, found \in Releases :
          IF ok
          THEN /\ info' = found
               /\ pc' = AfterCheck(Method(cmd), forcing, available)
          ELSE /\ info' = info
               /\ pc' = "failed"
    /\ UNCHANGED << cmd, op, sent, fn >>
    /\ UNCHANGED session
    /\ UNCHANGED release

\* Client::release, line 169: recovery_upgrade_release("", "", empty flags).
RecoveryRequest ==
    /\ pc = "recovery_request"
    /\ sent' = Append(sent, Call("recovery_upgrade_release", "", "", ""))
    /\ \E ok \in BOOLEAN : pc' = IF ok THEN "listen" ELSE "failed"
    /\ op' = "recovery"
    /\ UNCHANGED << cmd, info, fn >>
    /\ UNCHANGED session
    /\ UNCHANGED release

\* Client::release, lines 139-151: fetch_updates, and the session when there
\* is something to fetch.
FetchUpdates ==
    /\ pc = "fetch_updates"
    /\ sent' = Append(sent, Call("fetch_updates", "", "", ""))
    /\ \E ok \in BOOLEAN, updates_available \in BOOLEAN, total \in 0..1 :
          pc' = IF ~ok THEN "failed"
                ELSE IF ~updates_available \/ total = 0 THEN "no-updates"
                ELSE "listen"
    /\ op' = "fetch"
    /\ UNCHANGED << cmd, info, fn >>
    /\ UNCHANGED session
    /\ UNCHANGED release

\* Mutant: an error of the recovery session is dropped.
AfterListen_IgnoreError(operation, result) ==
    IF operation = "recovery" THEN "request"
    ELSE IF result = "Err" THEN "failed" ELSE "fetched"

\* Where Client::release goes on when the fetch or recovery session returns.
AfterListen(operation, result) ==
    IF result = "Err" THEN "failed"
    ELSE IF operation = "recovery" THEN "request" ELSE "fetched"

\* The fetch or recovery session returns what event_listen returned.
EndListen(result, how) ==
    /\ ended' = how
    /\ returned' = result
    /\ pc' = AfterListen(op, result)

\* The log callback of the session of an operation.
LogCallback(operation, code, why) ==
    CASE operation = "fetch" -> fetch_updates_log_cb(code, why)
      [] operation = "recovery" -> recovery_upgrade_log_cb(code, why)
      [] OTHER -> release_upgrade_log_cb(code, why)

\* event_listen_fetch_updates or event_listen_recovery_upgrade is entered and
\* event_listen asks the daemon for its status.
Listen ==
    /\ pc = "listen"
    /\ handled' = 0
    /\ last' = NoStep
    /\ \E query_ok \in BOOLEAN, status \in DaemonStatus, sub_status \in BOOLEAN,
          code \in StatusCodes, why \in Reasons :
          LET goes == Reconcile(Expected(op), query_ok, status, sub_status)
          IN  CASE goes = "error" ->
                      /\ EndListen("Err", "error")
                      /\ attached' = NotAttached
                      /\ printed' = <<>>
                [] goes = "report" ->
                      /\ EndListen("Ok", "status")
                      /\ attached' = [ok |-> TRUE, status |-> status,
                                      sub_status |-> sub_status, code |-> code]
                      /\ printed' = << LogCallback(op, code, why) >>
                [] OTHER ->
                      /\ pc' = "events"
                      /\ ended' = "none"
                      /\ returned' = "none"
                      /\ attached' = [ok |-> TRUE, status |-> status,
                                      sub_status |-> sub_status, code |-> code]
                      /\ printed' = <<>>
    /\ UNCHANGED << cmd, info, op, sent, fn >>
    /\ UNCHANGED release

\* The stream of the fetch or recovery session delivers a signal and the
\* dispatcher calls the handler of the session with it.
HandleOther ==
    /\ pc = "events"
    /\ handled < MaxEvents
    /\ \E signal \in Signals, why \in Reasons :
          LET step == IF op = "fetch"
                      THEN fetch_updates_handler(signal, why)
                      ELSE recovery_upgrade_handler(signal, why)
              goes == Dispatch(step.ret)
          IN  /\ last' = [signal |-> signal, stdin |-> <<>>, modify_ok |-> TRUE,
                          before |-> FALSE, step |-> step]
              /\ printed' = printed \o step.lines
              /\ IF goes = "stream"
                 THEN /\ pc' = "events"
                      /\ UNCHANGED << ended, returned >>
                 ELSE EndListen(goes, IF goes = "Ok" THEN "stop" ELSE "error")
    /\ handled' = handled + 1
    /\ attached' = NotAttached
    /\ UNCHANGED << cmd, info, op, sent, fn >>
    /\ UNCHANGED release

\* The stream of the fetch or recovery session fails.
ListenError ==
    /\ pc = "events"
    /\ EndListen("Err", "error")
    /\ attached' = NotAttached
    /\ UNCHANGED << handled, last, printed >>
    /\ UNCHANGED << cmd, info, op, sent, fn >>
    /\ UNCHANGED release

Next ==
    \/ ReleaseCheck \/ RecoveryRequest \/ FetchUpdates
    \/ Listen \/ HandleOther \/ ListenError
    \/ IssueRequest \/ Attach \/ HandleEvent \/ StreamError \/ Finalize

Spec == Init /\ [][Next]_vars

TypeOK ==
    /\ pc \in {"check", "recovery_request", "fetch_updates", "listen", "events",
              "request", "attach", "stream", "finalize", "done", "failed",
              "no-release", "no-updates", "fetched"}
    /\ cmd \in Commands
    /\ op \in {"none", "fetch", "recovery", "release"}
    /\ Len(sent) <= MaxRequests + 1
    /\ recall \in BOOLEAN
    /\ requests \in 0..MaxRequests
    /\ sessions \in 0..MaxRequests
    /\ finalizes \in 0..1
    /\ handled \in 0..MaxEvents
    /\ ended \in {"none", "status", "stop", "error"}
    /\ returned \in {"none", "Ok", "Err", "Retry", "NoRetry"}

\* ------------------------------------------- the pure functions, called

\* The places log_result is called from: the log callback and the result arm
\* of each session, and the PackageFetchResult arm of the release session.
LogSites ==
    { "fetch_status", "fetch_event", "recovery_status", "recovery_event",
      "release_status", "release_event", "release_fetch_event" }

\* The lines the call of a site prints for a status code and a reason.
LogAt(site, status, why) ==
    CASE site = "fetch_status" -> << fetch_updates_log_cb(status, why) >>
      [] site = "fetch_event" -> FetchResultArm(status, why).lines
      [] site = "recovery_status" -> << recovery_upgrade_log_cb(status, why) >>
      [] site = "recovery_event" -> RecoveryResultArm(status, why).lines
      [] site = "release_status" -> << release_upgrade_log_cb(status, why) >>
      [] site = "release_event" -> ReleaseResultArm(FALSE, status, why).lines
      [] OTHER -> PackageFetchResultArm(FALSE, status, why).lines

\* The lines read_line may hand to prompt_message: with the newline it keeps,
\* or without one when the input ends after the text; empty at end of input.
PromptLines ==
    { <<>>, <<"\n">>, <<"x", "\n">>,
      <<"y", "\n">>, <<"Y", "e", "s", "\n">>, <<"n", "\n">>, <<"N", "o", "\n">>,
      <<"t", "r", "u", "e">>, <<"t", "r", "u", "e", "\n">>,
      <<"f", "a", "l", "s", "e">>, <<"f", "a", "l", "s", "e", "\n">> }

\* The rounds of a prompt: a line read, or one of the three writes and reads
\* failing.
PromptRounds ==
    { Typed(line) : line \in PromptLines }
    \cup { Round(FALSE, TRUE, <<>>, TRUE), Round(TRUE, FALSE, <<>>, TRUE),
           Round(TRUE, TRUE, <<"x", "\n">>, FALSE) }

PromptInputs == UNION { [1..n -> PromptRounds] : n \in 0..MaxRounds }

InitPure == Init /\ cmd = "update"

\* log_result is called at one of its sites (one call a behaviour).
LogCall ==
    /\ fn = NoCall
    /\ \E site \in LogSites, status \in 0..MaxStatus, why \in Reasons :
          fn' = [name |-> "log_result", site |-> site, status |-> status,
                 why |-> why, lines |-> LogAt(site, status, why)]
    /\ UNCHANGED << cmd, info, op, sent, pc >>
    /\ UNCHANGED session
    /\ UNCHANGED release

\* prompt_message is called with a default, the terminal holding `stdin`.
PromptCall ==
    /\ fn = NoCall
    /\ \E stdin \in PromptInputs, default \in BOOLEAN :
          fn' = [name |-> "prompt_message", stdin |-> stdin, default |-> default,
                 answer |-> prompt_message(stdin, default),
                 loop |-> prompt_loop(stdin, default, 0)]
    /\ UNCHANGED << cmd, info, op, sent, pc >>
    /\ UNCHANGED session
    /\ UNCHANGED release

NextPure == LogCall \/ PromptCall

SpecPure == InitPure /\ [][NextPure]_vars

\* ------------------------------------------------------------------ claims

\* The operator's answer to the "Try again?" prompt of the last handler call.
AnsweredYes == last.signal.tag = "NoConnection" /\ <<TryAgain, TRUE>> \in last.step.asked

AnsweredNo == last.signal.tag = "NoConnection" /\ <<TryAgain, FALSE>> \in last.step.asked

\* The terminal inputs with which the operator says yes.
SaysYes ==
    { << Typed(<<"y", "\n">>) >>,
      << Typed(<<"\n">>), Typed(<<"Y", "e", "s", "\n">>) >> }

UpgradeSuccessLine == << UPGRADE_RESULT_STR, UPGRADE_RESULT_SUCCESS >>

UpgradeErrorLines == { << UPGRADE_RESULT_STR, UPGRADE_RESULT_ERROR, why >> : why \in Reasons }

\* C1: finalize is called at most once, only after a session that returned
\* without a retry request, exactly once in a flow that completes without an
\* error, and no request or session follows it.
C1_FinalizeOnceAfterNoRetry ==
    /\ [](/\ finalizes <= 1
          /\ pc = "finalize" => returned = "NoRetry" /\ finalizes = 0
          /\ finalizes = 1 => returned = "NoRetry" /\ pc \in {"done", "failed"}
          /\ pc = "done" => finalizes = 1 /\ requests = sessions)
    /\ [][finalizes = 1 => requests' = requests /\ sessions' = sessions]_vars

C1_Witness == pc = "done" /\ finalizes = 1 /\ requests = 2 /\ sessions = 2

\* C2: when the flow ends because the operator answered no to "Try again?",
\* finalize is never called.
C2_DeclineNeverFinalizes ==
    (AnsweredNo /\ returned = "NoRetry") => finalizes = 0

\* C3: whenever finalize has been called, the last session ended on a release
\* result with status code 0 (a ReleaseResult event or a reconciled status).
C3_FinalizeOnlyAfterSuccess ==
    finalizes > 0 =>
        \/ ended = "stop" /\ last.signal.tag = "ReleaseResult" /\ last.signal.status = 0
        \/ ended = "status" /\ attached.code = 0

\* C4 as stated: a NoConnection answered yes sets the retry flag and makes the
\* handler return stop for that event, ending the session with nothing printed.
C4_YesStopsSession ==
    AnsweredYes =>
        /\ last.step.recall
        /\ last.step.ret = "stop"
        /\ last.step.lines = <<>>
        /\ pc # "stream"

\* C4 amended: a NoConnection answered yes sets the retry flag, prints no
\* result line and makes the handler return keep-going, so the session stays
\* on the stream; a ReleaseResult handled later in the session (the flag being
\* set) ends the session without a result line.
C4_YesKeepsSessionGoing ==
    /\ AnsweredYes =>
           /\ last.step.recall /\ recall
           /\ last.step.ret = "continue"
           /\ last.step.lines = <<>>
           /\ ended = "none" => pc = "stream"
    /\ (last.signal.tag = "ReleaseResult" /\ last.before) =>
           /\ last.step.lines = <<>>
           /\ ended = "stop" /\ returned = "Retry"

C4_Witness == AnsweredYes /\ pc = "stream" /\ handled < MaxEvents

\* C5: a NoConnection answered yes leads to exactly one re-issued request for
\* its session; a NoConnection answered no ends the session with no re-issued
\* request, whatever preceded it in the session.
C5_RetryFollowsAnswer ==
    /\ AnsweredYes => recall
    /\ (recall /\ ended # "none") =>
           /\ returned = "Retry"
           /\ requests \in {sessions, sessions + 1}
    /\ AnsweredNo => ended = "stop" /\ returned = "NoRetry" /\ pc # "request"

\* C6: on a RepoCompatError one repo_modify call gets exactly one (URL, answer)
\* entry per failed URL, none for a succeeded URL, each answer the operator's
\* reply to the prompt for that URL; when the call succeeds the session ends in
\* a retry and one request is re-issued for it.
C6_RepoDecisionSet ==
    (op = "release" /\ last.signal.tag = "RepoCompatError") =>
        /\ Len(last.step.modify) = 1
        /\ \A url \in last.signal.failure :
               Cardinality({ d \in last.step.modify[1] : d[1] = url }) = 1
        /\ \A d \in last.step.modify[1] :
               /\ d[1] \in last.signal.failure
               /\ d[1] \notin last.signal.success
               /\ d[2] = (last.stdin[d[1]] \in SaysYes)
        /\ last.step.asked = last.step.modify[1]
        /\ Cardinality(last.step.asked) = Cardinality(last.signal.failure)
        /\ last.modify_ok =>
               /\ recall
               /\ ended = "none" => pc = "stream"
               /\ ended # "none" =>
                      /\ returned = "Retry"
                      /\ pc \in {"request", "attach", "failed"}
                      /\ requests = IF pc = "request" THEN sessions ELSE sessions + 1

C6_Witness ==
    /\ op = "release"
    /\ last.signal.tag = "RepoCompatError"
    /\ last.signal.failure = Urls
    /\ last.step.modify = << { <<"repo-a", TRUE>>, <<"repo-b", FALSE>> } >>
    /\ last.modify_ok
    /\ returned = "Retry"
    /\ pc = "attach"

\* C7 as stated: every RepoCompatError sets the retry flag, also when
\* repo_modify fails, and makes the handler return stop.
C7_RepoErrorAlwaysRetriesAndStops ==
    (op = "release" /\ last.signal.tag = "RepoCompatError") =>
        /\ last.step.recall
        /\ last.step.ret = "stop"

\* C7 amended: a RepoCompatError sets the retry flag only when repo_modify
\* succeeds, and the handler then returns keep-going, so the session stays on
\* the stream; when repo_modify fails the handler returns the error with the
\* flag as it was, and the session ends.
C7_RepoErrorRetriesOnSuccess ==
    (op = "release" /\ last.signal.tag = "RepoCompatError") =>
        /\ last.modify_ok =>
               /\ last.step.recall
               /\ last.step.ret = "continue"
               /\ ended = "none" => pc = "stream"
        /\ ~last.modify_ok =>
               /\ last.step.recall = last.before
               /\ last.step.ret = "error"
               /\ ended = "error"
               /\ returned = IF last.before THEN "Retry" ELSE "Err"

C7_Witness ==
    /\ op = "release"
    /\ last.signal.tag = "RepoCompatError"
    /\ ~last.modify_ok
    /\ ~last.before
    /\ returned = "Err"
    /\ pc = "failed"

\* C8 as stated: a transport error that ends a session is always returned as
\* an error and aborts the driver, also when a retry had been requested.
C8_TransportErrorAlwaysFatal ==
    ended = "error" => returned = "Err" /\ pc = "failed"

\* C8 amended: a transport error that ends a session is returned as an error
\* and aborts the driver, with no re-issued request and no finalize call, when
\* no retry had been requested earlier in that session; when one had been, the
\* error is dropped and the session returns the retry request.
C8_TransportErrorFatalUnlessRetry ==
    ended = "error" =>
        /\ ~recall => /\ returned = "Err"
                      /\ pc = "failed"
                      /\ finalizes = 0
                      /\ requests = sessions
        /\ recall => /\ returned = "Retry"
                     /\ pc \in {"request", "attach", "failed"}
                     /\ finalizes = 0

C8_Witness == ended = "error" /\ recall /\ returned = "Retry" /\ pc = "attach"

C10_RetryScenario ==
    scenario = "match" =>
        /\ requests = 2
        /\ sessions = 2
        /\ Reported(UpgradeSuccessLine) = 1
        /\ \A line \in UpgradeErrorLines : Reported(line) = 0
        /\ \/ pc = "finalize" /\ finalizes = 0
           \/ pc \in {"done", "failed"} /\ finalizes = 1

C10_Witness == scenario = "match" /\ pc = "done" /\ finalizes = 1

\* The result lines of each operation, as log_result prints them.
ResultLines(operation) ==
    { LogCallback(operation, code, why) : code \in StatusCodes, why \in Reasons }

\* The last session of the release flow ended on a declined "Try again?".
Declined == ended = "stop" /\ last.signal.tag = "NoConnection"

\* C11 as stated: an operation that ran to completion without a transport
\* error has printed exactly one line through log_result: the fetch and the
\* recovery session one line, the release flow one line over all its sessions.
C11_ExactlyOneSummaryLine ==
    /\ (op \in {"fetch", "recovery"} /\ returned = "Ok") => Len(printed) = 1
    /\ pc = "done" => BagCardinality(reported) = 1 /\ Len(printed) = 1

\* C11 amended: a fetch or recovery session that returns without an error
\* has printed exactly one log_result line, the result line of its operation;
\* the release flow prints at most one "Release upgrade status" line over all
\* its sessions: none while a session may still retry or when the flow ended
\* on a declined "Try again?", one when it ended on a result; and each
\* PackageFetchResult of a release session adds one "Package fetch status"
\* line through log_result.
C11_SummaryLines ==
    /\ (op \in {"fetch", "recovery"} /\ returned = "Ok") =>
           /\ Len(printed) = 1
           /\ printed[1] \in ResultLines(op)
    /\ BagCardinality(reported) <= 1
    /\ returned = "Retry" => BagCardinality(reported) = 0
    /\ (pc \in {"finalize", "done"} \/ finalizes = 1) =>
           BagCardinality(reported) = IF Declined THEN 0 ELSE 1
    /\ (op = "release" /\ last.signal.tag = "PackageFetchResult") =>
           /\ Len(last.step.lines) = 1
           /\ last.step.lines[1] \in ResultLines("fetch")
    /\ (op = "release" /\ last.signal.tag \notin {"PackageFetchResult", "ReleaseResult"}) =>
           last.step.lines = <<>>

C11_Witness ==
    /\ pc = "done"
    /\ sessions = 2
    /\ Declined
    /\ Len(printed) = 1
    /\ printed[1] \in ResultLines("fetch")
    /\ BagCardinality(reported) = 0

\* The positions in `sent` of the requests of a name.
Sent(name) == { i \in 1..Len(sent) : sent[i].name = name }

\* C12: with the recovery method the recovery-upgrade request is sent first
\* and the recovery session has returned (without an error) when the first
\* release-upgrade request is sent; no release-upgrade request is sent while
\* the recovery request or session is under way; with the systemd method no
\* recovery request is sent at all.
C12_RecoveryBeforeRelease ==
    /\ [](/\ cmd = "systemd" => Sent("recovery_upgrade_release") = {}
          /\ cmd = "recovery" =>
                 /\ Sent("recovery_upgrade_release") \subseteq {1}
                 /\ Sent("release_upgrade") # {} =>
                        Sent("recovery_upgrade_release") = {1}
                 /\ pc \in {"check", "recovery_request", "listen", "events"} =>
                        Sent("release_upgrade") = {} /\ requests = 0
          /\ Cardinality(Sent("release_upgrade")) = requests)
    /\ [][(cmd = "recovery" /\ requests = 0 /\ requests' = 1) =>
              /\ op = "recovery"
              /\ returned = "Ok"
              /\ ended \in {"status", "stop"}
              /\ pc = "request"]_vars

C12_Witness ==
    /\ cmd = "recovery"
    /\ sent = << Call("recovery_upgrade_release", "", "", ""),
                 Call("release_upgrade", "Recovery", "20.04", "22.04") >>
    /\ op = "recovery"
    /\ ended = "stop"
    /\ last.signal.tag = "RecoveryResult"
    /\ pc = "attach"

\* The label and the two headlines of the site of a log_result call.
ConstantsAt(site) ==
    CASE site \in {"fetch_status", "fetch_event", "release_fetch_event"} ->
             << "Package fetch status", "cargo has been loaded successfully",
                "package-fetching aborted" >>
      [] site \in {"recovery_status", "recovery_event"} ->
             << "Recovery upgrade status",
                "recovery partition refueled and ready to go",
                "recovery upgrade aborted" >>
      [] OTHER ->
             << "Release upgrade status", "systems are go for launch: reboot now",
                "release upgrade aborted" >>

\* C13: a call of log_result prints exactly one line: the label and the
\* success headline, without the reason, when the status code is 0; the
\* label, the error headline and the reason when it is not; and the label and
\* headlines are those of the operation, for its result event and for its
\* reconciled status alike.
C13_LogResultLine ==
    fn.name = "log_result" =>
        /\ Len(fn.lines) = 1
        /\ fn.lines[1][1] = ConstantsAt(fn.site)[1]
        /\ fn.status = 0 =>
               /\ Len(fn.lines[1]) = 2
               /\ fn.lines[1][2] = ConstantsAt(fn.site)[2]
               /\ \A i \in 1..Len(fn.lines[1]) : fn.lines[1][i] # fn.why
        /\ fn.status # 0 =>
               /\ Len(fn.lines[1]) = 3
               /\ fn.lines[1][2] = ConstantsAt(fn.site)[3]
               /\ fn.lines[1][3] = fn.why

C13_Witness ==
    /\ fn.name = "log_result"
    /\ fn.site = "fetch_event"
    /\ fn.status = MaxStatus
    /\ fn.lines = << << FETCH_RESULT_STR, FETCH_RESULT_ERROR, "reason" >> >>

\* What the operator typed on a line: the line without the newline that ends it.
Text(line) ==
    IF line # <<>> /\ line[Len(line)] = "\n" THEN SubSeq(line, 1, Len(line) - 1)
    ELSE line

\* C14 as stated: when a line is read at the first prompt, an empty line (the
\* operator just pressed Enter) yields the default, a line beginning with y
\* or Y or the answer true yields TRUE, a line beginning with n or N or the
\* answer false yields FALSE, each without a usage message; any other line
\* gets the usage message and another prompt.
C14_PromptAnswers ==
    (fn.name = "prompt_message" /\ fn.stdin # <<>>) =>
        LET r == fn.stdin[1]
            text == Text(r.line)
            now(answer) == fn.answer = answer /\ fn.loop.usages = 0
        IN  (r.out /\ r.in /\ r.usage /\ r.line # <<>>) =>
                IF text = <<>> THEN now(fn.default)
                ELSE IF text[1] \in {"y", "Y"} \/ text = <<"t", "r", "u", "e">>
                     THEN now(TRUE)
                ELSE IF text[1] \in {"n", "N"} \/ text = <<"f", "a", "l", "s", "e">>
                     THEN now(FALSE)
                ELSE fn.loop.usages >= 1 /\ fn.loop.rounds >= 2

\* C15: prompt_message returns a boolean for every input, after at most one
\* round more than the terminal holds; when the round that ends it is a
\* failed write of the prompt, a failed read, a failed write of the usage
\* message or the end of input, the boolean is the default.
C15_PromptNeverFails ==
    fn.name = "prompt_message" =>
        /\ fn.answer \in BOOLEAN
        /\ fn.answer = fn.loop.answer
        /\ fn.loop.rounds \in 1..(Len(fn.stdin) + 1)
        /\ fn.loop.usages = fn.loop.rounds - 1
        /\ fn.loop.rounds > Len(fn.stdin) => fn.answer = fn.default
        /\ fn.loop.rounds <= Len(fn.stdin) =>
               LET r == fn.stdin[fn.loop.rounds]
               IN  (~r.out \/ ~r.in \/ r.line = <<>> \/ ~r.usage) =>
                       fn.answer = fn.default

C15_Witness ==
    /\ fn.name = "prompt_message"
    /\ fn.default
    /\ fn.stdin = << Typed(<<"x", "\n">>), Round(TRUE, FALSE, <<>>, TRUE) >>
    /\ fn.answer
    /\ fn.loop.usages = 1

\* The informational events of each session.
Informational(operation) ==
    CASE operation = "fetch" -> {"PackageFetching", "PackageFetched", "PackageUpgrade"}
      [] operation = "recovery" -> {"RecoveryDownloadProgress", "RecoveryEvent"}
      [] OTHER -> {"PackageFetching", "PackageFetched", "PackageUpgrade", "ReleaseEvent"}

\* C16: in each of the three sessions the handler returns keep-going for an
\* informational event, prints no result line, asks nothing and leaves the
\* retry flag as it was; the session stays on the stream (it can then only
\* end on a later event or on the stream failing).
C16_InformationalKeepsGoing ==
    last.signal.tag \in Informational(op) =>
        /\ last.step.ret = "continue"
        /\ last.step.recall = last.before
        /\ recall = last.before
        /\ last.step.lines = <<>>
        /\ last.step.asked = {}
        /\ ended \in {"none", "error"}
        /\ ended = "none" => pc \in {"stream", "events"}

C16_Witness ==
    /\ op = "release"
    /\ last.signal.tag = "ReleaseEvent"
    /\ last.before
    /\ recall
    /\ pc = "stream"
    /\ handled < MaxEvents

\* C17: in a release session a ReleaseResult makes the handler return stop
\* and the session end; its result line is printed exactly when no retry had
\* been requested earlier in that session; and the flag is false when a
\* session starts, whatever the session before did.
C17_ReleaseResultEndsSession ==
    /\ (op = "release" /\ last.signal.tag = "ReleaseResult") =>
           /\ last.step.ret = "stop"
           /\ ended = "stop"
           /\ pc # "stream"
           /\ returned = IF last.before THEN "Retry" ELSE "NoRetry"
           /\ last.step.lines =
                  IF last.before THEN <<>>
                  ELSE << release_upgrade_log_cb(last.signal.status, "reason") >>
           /\ last.before =>
                  \A i \in 1..Len(printed) : printed[i][1] # UPGRADE_RESULT_STR
           /\ ~last.before =>
                  printed # <<>> /\ printed[Len(printed)][1] = UPGRADE_RESULT_STR
    /\ (pc = "stream" /\ handled = 0) => ~recall

C17_Witness ==
    /\ op = "release"
    /\ sessions = 2
    /\ last.signal.tag = "ReleaseResult"
    /\ ~last.before
    /\ last.step.lines = << UpgradeSuccessLine >>
    /\ returned = "NoRetry"

\* C18 as stated: in the fetch session a PackageFetchResult and a
\* PackageUpgrade are both reported through log_result and make the handler
\* return stop.
C18_FetchResultAndStepStop ==
    (op = "fetch" /\ last.signal.tag \in {"PackageFetchResult", "PackageUpgrade"}) =>
        /\ last.step.lines # <<>>
        /\ last.step.ret = "stop"

\* C18 amended: in the fetch session a PackageFetchResult is reported through
\* log_result, once, and makes the handler return stop, which ends the
\* session; a PackageUpgrade is informational: nothing is reported and the
\* handler returns keep-going; and the update flow sends its one fetch
\* request and never another request.
C18_FetchResultStops ==
    /\ [](/\ (op = "fetch" /\ last.signal.tag = "PackageFetchResult") =>
                 /\ last.step.lines = << fetch_updates_log_cb(last.signal.status, "reason") >>
                 /\ last.step.ret = "stop"
                 /\ ended = "stop" /\ returned = "Ok" /\ pc = "fetched"
          /\ (op = "fetch" /\ last.signal.tag = "PackageUpgrade") =>
                 /\ last.step.lines = <<>>
                 /\ last.step.ret = "continue"
                 /\ ended \in {"none", "error"}
          /\ cmd = "update" =>
                 /\ Len(sent) <= 1
                 /\ Sent("fetch_updates") = 1..Len(sent)
                 /\ requests = 0 /\ sessions = 0)
    /\ [][(cmd = "update" /\ sent # <<>>) => sent' = sent]_vars
    /\ [][(cmd = "update" /\ pc \in {"fetched", "no-updates", "failed"}) => pc' = pc]_vars

C18_Witness ==
    /\ op = "fetch"
    /\ last.signal.tag = "PackageFetchResult"
    /\ last.signal.status = 1
    /\ handled = 2
    /\ printed = << << FETCH_RESULT_STR, FETCH_RESULT_ERROR, "reason" >> >>
    /\ pc = "fetched"
    /\ Len(sent) = 1

\* The events each session's handler has an arm for.
Vocabulary(operation) ==
    CASE operation = "fetch" ->
             {"PackageFetchResult", "PackageFetched", "PackageFetching", "PackageUpgrade"}
      [] operation = "recovery" ->
             {"RecoveryDownloadProgress", "RecoveryEvent", "RecoveryResult"}
      [] OTHER ->
             {"PackageFetchResult", "PackageFetched", "PackageFetching", "PackageUpgrade",
              "ReleaseResult", "ReleaseEvent", "NoConnection", "RepoCompatError"}

\* C19: for an event outside the vocabulary of the session the handler
\* returns keep-going, prints no result line, asks the operator nothing, calls
\* no repo_modify and leaves the retry flag as it was: the session neither
\* ends on it nor retries for it.
C19_ForeignEventIgnored ==
    (last # NoStep /\ last.signal.tag \notin Vocabulary(op)) =>
        /\ last.step.ret = "continue"
        /\ last.step.lines = <<>>
        /\ last.step.asked = {}
        /\ last.step.modify = <<>>
        /\ last.step.recall = last.before
        /\ recall = last.before
        /\ ended \in {"none", "error"}
        /\ ended = "none" => pc \in {"stream", "events"}
        /\ op \in {"fetch", "recovery"} => requests = 0

C19_Witness ==
    /\ op = "recovery"
    /\ last.signal.tag = "ReleaseResult"
    /\ handled = 1
    /\ printed = <<>>
    /\ pc = "events"

\* C20: every release-upgrade request carries the method of the subcommand
\* and the (current, next) pair of release_check, the re-issued ones like the
\* first; a request is re-issued only after the session of the one before
\* has returned with a retry request; requests and sessions alternate: as
\* many sessions have started as requests were sent, or one less while the
\* last request has no session yet (it is about to start, or the request
\* failed and the driver returned the error).
C20_SameRequestAlternates ==
    /\ [](/\ \A i \in Sent("release_upgrade") :
                 sent[i] = Call("release_upgrade", Method(cmd), info[1], info[2])
          /\ Cardinality(Sent("release_upgrade")) = requests
          /\ requests \in {sessions, sessions + 1}
          /\ pc = "attach" => requests = sessions + 1
          /\ pc \in {"request", "stream", "finalize", "done"} => requests = sessions
          /\ requests = sessions + 1 => pc \in {"attach", "failed"})
    /\ [][requests' # requests =>
              /\ requests' = requests + 1
              /\ pc = "request"
              /\ sessions' = sessions
              /\ requests > 0 => op = "release" /\ ended # "none" /\ returned = "Retry"]_vars
    /\ [][sessions' # sessions =>
              sessions' = sessions + 1 /\ requests' = requests /\ requests = sessions']_vars

C20_Witness ==
    /\ cmd = "recovery"
    /\ Cardinality(Sent("release_upgrade")) = 3
    /\ sent[4] = Call("release_upgrade", "Recovery", "20.04", "22.04")
    /\ sessions = 3
    /\ pc = "stream"

\* The "Release upgrade status" lines the running (or last) session printed.
UpgradeLinesPrinted == { i \in 1..Len(printed) : printed[i][1] = UPGRADE_RESULT_STR }

\* C21: over all the sessions of a release-upgrade flow at most one "Release
\* upgrade status" line is printed; the session that printed it (on a
\* ReleaseResult or on the reconciled status) is the last one: it returns
\* without a retry request, and no request and no session follows it.
C21_OneUpgradeLineInLastSession ==
    /\ [](/\ BagCardinality(reported) <= 1
          /\ BagCardinality(reported) = 1 =>
                 /\ op = "release"
                 /\ Cardinality(UpgradeLinesPrinted) = 1
                 /\ UpgradeLinesPrinted = {Len(printed)}
                 /\ ended \in {"stop", "status"}
                 /\ returned = "NoRetry"
                 /\ requests = sessions
                 /\ pc \in {"finalize", "done", "failed"}
          /\ (op = "release" /\ BagCardinality(reported) = 0) => UpgradeLinesPrinted = {})
    /\ [][BagCardinality(reported) = 1 =>
              /\ requests' = requests
              /\ sessions' = sessions
              /\ reported' = reported]_vars

C21_Witness ==
    /\ sessions = 3
    /\ BagCardinality(reported) = 1
    /\ ended = "status"
    /\ UpgradeLinesPrinted = {1}
    /\ pc = "done"

\* C22: within a release session the retry flag is false when the session
\* starts, goes from false to true only on a NoConnection answered yes or on
\* a RepoCompatError whose repo_modify succeeded, and is never cleared; so a
\* session in which it was set returns the retry request however it ends,
\* also on a later NoConnection answered no.
C22_RetryFlagMonotonic ==
    /\ [](/\ (op = "release" /\ last # NoStep) =>
                 /\ last.before => last.step.recall
                 /\ recall = last.step.recall
                 /\ (~last.before /\ last.step.recall) =>
                        \/ AnsweredYes
                        \/ last.signal.tag = "RepoCompatError" /\ last.modify_ok
          /\ (op = "release" /\ recall /\ ended # "none") => returned = "Retry"
          /\ (op = "release" /\ ~recall /\ ended # "none") => returned # "Retry"
          /\ (pc = "stream" /\ handled = 0) => ~recall)
    /\ [][sessions' # sessions => ~recall']_vars
    /\ [][(recall /\ sessions' = sessions) => recall']_vars
    /\ [][(~recall /\ recall') => pc = "stream" /\ handled' = handled + 1]_vars

C22_Witness ==
    /\ op = "release"
    /\ AnsweredNo
    /\ last.before
    /\ recall
    /\ ended = "stop"
    /\ returned = "Retry"
    /\ pc = "request"

RequestFailed == pc = "failed" /\ requests = sessions + 1

SessionFailed == op = "release" /\ returned = "Err"

\* C24: when a release-upgrade request returns an error, or a release
\* session returns an error (no retry having been requested in it), the driver
\* has returned that error: finalize has not been called, and no request, no
\* session and no finalize call follows.
C24_ErrorAbortsDriver ==
    /\ [](/\ SessionFailed =>
                 /\ ~recall
                 /\ ended = "error"
                 /\ pc = "failed"
                 /\ requests = sessions
                 /\ finalizes = 0
          /\ requests = sessions + 1 => pc \in {"attach", "failed"}
          /\ RequestFailed => finalizes = 0
          /\ (op = "release" /\ ended = "error" /\ ~recall) => SessionFailed)
    /\ [][(RequestFailed \/ SessionFailed) =>
              /\ pc' = "failed"
              /\ requests' = requests
              /\ sessions' = sessions
              /\ finalizes' = 0]_vars
    /\ [][finalizes' # finalizes => returned = "NoRetry" /\ pc = "finalize"]_vars

C24_Witness ==
    /\ SessionFailed
    /\ sessions = 2
    /\ handled = 1
    /\ last.signal.tag = "RepoCompatError"
    /\ ~last.modify_ok
    /\ pc = "failed"
    /\ finalizes = 0

====
